---- MODULE Spec2Model ----
(***************************************************************************)
(* Model of the VectorDatabase class of Chapter_5/Lecture_5.ipynb: an      *)
(* in-memory FAISS flat L2 index kept in parallel with a list of document  *)
(* texts and a list of metadata dictionaries, with save/load to a          *)
(* directory.                                                              *)
(*                                                                         *)
(* One catalog object (the variable group model_name, index, documents,    *)
(* metadata) is driven by a caller that constructs catalogs, adds          *)
(* documents, searches, saves and loads.  The caller owns a few metadata   *)
(* dictionaries (heap) that it may pass to add_documents any number of     *)
(* times; Python passes them by reference.  The directory written by save  *)
(* is the variable disk.  The variables last and assigned are history      *)
(* variables: the latest call with its arguments and outcome, and the      *)
(* document_idx values stamped into metadata for the present catalog.      *)
(* The variable caller is fixed by Init and bounds what one behaviour's    *)
(* caller does: a "dicts" caller passes its own metadata dictionaries and  *)
(* keeps the catalog in memory, a "disk" caller saves and loads and lets   *)
(* add_documents create the metadata.  The variable saving is the position *)
(* of a save call that is followed file by file, for the behaviours in     *)
(* which the process may die during save; elsewhere save is one step.      *)
(* The variable adds holds, for each thread of the caller, the position of *)
(* an add_documents call that is followed statement by statement, for the  *)
(* behaviours in which calls interleave or are cancelled; elsewhere        *)
(* add_documents is one step.                                              *)
(***************************************************************************)
EXTENDS Integers, Sequences, FiniteSets, TLC

VARIABLES model_name, index, documents, metadata, heap, disk, last, assigned,
          caller, saving, adds

vars == <<model_name, index, documents, metadata, heap, disk, last, assigned,
          caller, saving, adds>>

(***************************************************************************)
(* Bounds of the model.                                                    *)
(***************************************************************************)
\* Largest number of documents, and of index vectors, a catalog is driven to.
MaxDocs == 2
\* Largest batch (texts or metadata entries) passed to one add_documents.
MaxBatch == MaxDocs
\* Largest k passed to search: one above the largest document count.
MaxK == MaxDocs + 1

\* Characters texts are made of; a text is a non-empty sequence of them.
Chars == {"a", "b"}
\* Texts the caller puts in a list batch and uses as queries.
Texts == {<<c>> : c \in Chars}
\* The metadata dictionaries the caller owns (object identities).
CallerDicts == {1, 2}
\* Names of the pre-trained models a catalog is constructed with.
DefaultModel == "distilbert-base-uncased"
ModelNames == {DefaultModel, "bert-large-uncased"}
\* A model kept in a local directory whose name ends in a blank, and the
\* names from_pretrained can resolve.
LocalModel == "./model "
KnownModels == ModelNames \cup {LocalModel}

(***************************************************************************)
(* Values.                                                                 *)
(***************************************************************************)
\* self.index = None
NoIndex == [present |-> FALSE, d |-> 0, xb |-> <<>>]
\* A file of the directory that does not exist.
NoFile == [exists |-> FALSE, data |-> <<>>]
\* No save call is under way, no file is half written, the process lives.
NotSaving == [at |-> 0, partial |-> {}, crashed |-> FALSE]
\* The threads of a caller that calls add_documents from more than one.
Threads == {1, 2}
\* No add_documents call made by a thread: its position, its batch, its local
\* start_idx, which of its writes are done, and how its latest call ended.
NoCall == [pc |-> "idle", docs |-> <<>>, start_idx |-> 0, indexed |-> FALSE,
           stored |-> FALSE, stamped |-> FALSE, result |-> "none"]
\* A directory holding none of the four files.
EmptyDir ==
    [index |-> NoIndex, documents |-> NoFile, metadata |-> NoFile,
     model_name |-> [exists |-> FALSE, data |-> ""]]

\* A Python dict is the set of its <<key, value>> items.
EmptyDict == {}
\* d[key] = value
DictSet(d, key, value) == {p \in d : p[1] # key} \cup {<<key, value>>}

\* The dictionary a metadata list entry refers to: one of the caller's
\* objects (ref # 0, read through the heap) or an object only the catalog
\* holds (ref = 0, its items in val).
MetaValue(h, e) == IF e.ref = 0 THEN e.val ELSE h[e.ref]
MetaValues(h, ms) == [i \in 1..Len(ms) |-> MetaValue(h, ms[i])]

Min(a, b) == IF a <= b THEN a ELSE b

RECURSIVE SumSeq(_)
SumSeq(s) == IF s = <<>> THEN 0 ELSE Head(s) + SumSeq(Tail(s))

RECURSIVE Flatten(_)
Flatten(ss) == IF ss = <<>> THEN <<>> ELSE Head(ss) \o Flatten(Tail(ss))

(***************************************************************************)
(* The embedder.  The transformer is an external model; it is abstracted   *)
(* to a deterministic function of the model name and the text whose        *)
(* output width depends on the model only (hidden sizes 768 and 1024 are   *)
(* scaled down to 1 and 2).                                                *)
(***************************************************************************)
Width(name) == IF name = DefaultModel THEN 1 ELSE 2

Code(c) == IF c = "a" THEN 1 ELSE 2

Embed(name, text) ==
    [j \in 1..Width(name) |->
        (SumSeq([i \in 1..Len(text) |-> Code(text[i])]) * j + Len(text)) % 3]

\* generate_embeddings(texts): one row per text of the batch the tokenizer
\* sees.  A list is a batch of its elements; a str is a batch of one text.
GenerateEmbeddings(name, docs, asStr) ==
    IF asStr THEN <<Embed(name, Flatten(docs))>>
    ELSE [i \in 1..Len(docs) |-> Embed(name, docs[i])]

(***************************************************************************)
(* The FAISS flat L2 index (faiss.IndexFlatL2 and its Python wrapper).     *)
(***************************************************************************)
\* faiss.IndexFlatL2(dimension)
IndexFlatL2(dimension) == [present |-> TRUE, d |-> dimension, xb |-> <<>>]

\* embeddings.shape[1]
Shape1(embeddings) == Len(embeddings[1])

\* A variant of the next definition: a new index on every call, without the
\* test for None.
EnsureIndexAlways(ix, embeddings) == IndexFlatL2(Shape1(embeddings))

\* if self.index is None: self.index = faiss.IndexFlatL2(embeddings.shape[1])
EnsureIndex(ix, embeddings) ==
    IF ~ix.present THEN IndexFlatL2(Shape1(embeddings)) ELSE ix

\* index.add(x) and index.search(x, k) start with: assert d == self.d
DimensionOk(ix, x) == Shape1(x) = ix.d

\* index.add(embeddings): the rows are appended in order.
IndexAdd(ix, embeddings) == [ix EXCEPT !.xb = ix.xb \o embeddings]

\* index.ntotal
NTotal(ix) == Len(ix.xb)

\* Squared Euclidean distance.
L2Sqr(u, v) == SumSeq([j \in 1..Len(u) |-> (u[j] - v[j]) * (u[j] - v[j])])

\* The distance FAISS reports for a missing neighbour (FLT_MAX): above every
\* distance between two embeddings, whose components lie in 0..2.
NoNeighbourDistance(ix) == 4 * ix.d + 1

\* Position p is ranked before position r: smaller distance, then lower position.
Before(xb, q, p, r) ==
    \/ L2Sqr(xb[p + 1], q) < L2Sqr(xb[r + 1], q)
    \/ L2Sqr(xb[p + 1], q) = L2Sqr(xb[r + 1], q) /\ p <= r

\* The k nearest of the candidate positions in rank order; when fewer than k
\* vectors are stored FAISS pads the labels with -1.
RECURSIVE KNearest(_, _, _, _)
KNearest(ix, q, cands, k) ==
    IF k = 0 THEN <<>>
    ELSE IF cands = {}
    THEN <<[idx |-> -1, distance |-> NoNeighbourDistance(ix)]>>
         \o KNearest(ix, q, cands, k - 1)
    ELSE LET p == CHOOSE c \in cands : \A r \in cands : Before(ix.xb, q, c, r)
         IN <<[idx |-> p, distance |-> L2Sqr(ix.xb[p + 1], q)]>>
            \o KNearest(ix, q, cands \ {p}, k - 1)

\* distances, indices = index.search(query_embedding, k), first query row.
IndexSearch(ix, q, k) == KNearest(ix, q, 0..(NTotal(ix) - 1), k)

(***************************************************************************)
(* Python list indexing with a NumPy integer: a negative index counts from *)
(* the end, an index outside -len..len-1 raises IndexError.                *)
(***************************************************************************)
InRange(list, idx) == idx < Len(list) /\ -idx <= Len(list)
GetItem(list, idx) == IF idx >= 0 THEN list[idx + 1] ELSE list[Len(list) + idx + 1]

(***************************************************************************)
(* The record of the latest call.                                          *)
(***************************************************************************)
\* op and outcome of the call; for add_documents the batch size n, whether a
\* metadata list was passed and its length, and the number of rows the
\* embedder returned; for search the query and k.
NoArgs == [n |-> 0, given |-> FALSE, metaLen |-> 0, rows |-> 0, query |-> <<>>, k |-> 0]
AddArgs(n, given, metaLen, rows) ==
    [NoArgs EXCEPT !.n = n, !.given = given, !.metaLen = metaLen, !.rows = rows]
SearchArgs(query, k) == [NoArgs EXCEPT !.query = query, !.k = k]
Call(op, outcome, args) == [op |-> op, outcome |-> outcome, args |-> args]

\* len(self.documents), printed as "Total documents"
total_count == Len(documents)

Init ==
    /\ model_name = DefaultModel
    /\ index = NoIndex
    /\ documents = <<>>
    /\ metadata = <<>>
    /\ heap = [o \in CallerDicts |-> {<<"source", o>>}]
    /\ disk = EmptyDir
    /\ caller \in {"dicts", "disk"}
    /\ saving = NotSaving
    /\ adds = [t \in Threads |-> NoCall]
    /\ last = Call("new", "ok", NoArgs)
    /\ assigned = <<>>

(***************************************************************************)
(* db = VectorDatabase(name)                                               *)
(***************************************************************************)
New(name) ==
    /\ model_name' = name
    /\ index' = NoIndex
    /\ documents' = <<>>
    /\ metadata' = <<>>
    /\ assigned' = <<>>
    /\ last' = Call("new", "ok", NoArgs)
    /\ UNCHANGED <<heap, disk, caller, saving, adds>>

(***************************************************************************)
(* add_documents(documents, metadata)                                      *)
(***************************************************************************)
\* A variant of the next definition: self.documents = documents
ExtendDocumentsAssign(stored, docs) == docs

\* self.documents.extend(documents)
ExtendDocuments(stored, docs) == stored \o docs

\* metadata = [{} for _ in documents] when None, else the caller's list.
MetadataArg(given, refs, docs) ==
    IF given THEN [i \in 1..Len(refs) |-> [ref |-> refs[i], val |-> EmptyDict]]
    ELSE [i \in 1..Len(docs) |-> [ref |-> 0, val |-> EmptyDict]]

\* The id stamped into the i-th (1-based) dictionary of the batch.
StampedId(start_idx, i) == start_idx + (i - 1)

\* for i, meta in enumerate(metadata): meta['document_idx'] = start_idx + i
\* on the caller's dictionaries, in order (a dictionary listed twice keeps
\* the later id).
RECURSIVE StampHeap(_, _, _, _)
StampHeap(h, entries, start_idx, i) ==
    IF i > Len(entries) THEN h
    ELSE LET e == entries[i]
             h2 == IF e.ref = 0 THEN h
                   ELSE [h EXCEPT ![e.ref] =
                            DictSet(h[e.ref], "document_idx", StampedId(start_idx, i))]
         IN StampHeap(h2, entries, start_idx, i + 1)

\* The same loop on the dictionaries created by add_documents itself.
StampOwn(entries, start_idx) ==
    [i \in 1..Len(entries) |->
        IF entries[i].ref = 0
        THEN [entries[i] EXCEPT !.val = DictSet(@, "document_idx", StampedId(start_idx, i))]
        ELSE entries[i]]

\* self.metadata.extend(metadata)
ExtendMetadata(stored, entries) == stored \o entries

\* A variant of the next definition: the test for an empty batch is missing.
NoDocumentsUntested(docs) == FALSE

\* if not documents:
NoDocuments(docs) == Len(docs) = 0

AddDocuments(docs, asStr, given, refs, embedFails) ==
    LET n == Len(docs)
        embeddings == GenerateEmbeddings(model_name, docs, asStr)
        ix == EnsureIndex(index, embeddings)
        start_idx == Len(documents)
        entries == MetadataArg(given, refs, docs)
        metaLen == IF given THEN Len(refs) ELSE 0
        done(outcome, rows) ==
            last' = Call("add", outcome, AddArgs(n, given, metaLen, rows))
    IN
    /\ Len(documents) + n <= MaxDocs
    /\ NTotal(index) + n <= MaxDocs
    /\ IF NoDocuments(docs)
       THEN \* if not documents: return
            /\ done("empty", 0)
            /\ UNCHANGED <<model_name, index, documents, metadata, heap, disk, assigned, caller, saving, adds>>
       ELSE IF embedFails \/ n = 0
       THEN \* generate_embeddings raises (the tokenizer takes no empty batch)
            /\ done("EmbedError", 0)
            /\ UNCHANGED <<model_name, index, documents, metadata, heap, disk, assigned, caller, saving, adds>>
       ELSE IF ~DimensionOk(ix, embeddings)
       THEN \* self.index.add raises
            /\ done("DimError", Len(embeddings))
            /\ index' = ix
            /\ UNCHANGED <<model_name, documents, metadata, heap, disk, assigned, caller, saving, adds>>
       ELSE IF Len(entries) # n
       THEN \* the assert on the metadata length raises
            /\ done("MetaLenError", Len(embeddings))
            /\ index' = IndexAdd(ix, embeddings)
            /\ documents' = ExtendDocuments(documents, docs)
            /\ UNCHANGED <<model_name, metadata, heap, disk, assigned, caller, saving, adds>>
       ELSE /\ done("ok", Len(embeddings))
            /\ index' = IndexAdd(ix, embeddings)
            /\ documents' = ExtendDocuments(documents, docs)
            /\ heap' = StampHeap(heap, entries, start_idx, 1)
            /\ metadata' = ExtendMetadata(metadata, StampOwn(entries, start_idx))
            /\ assigned' = assigned \o [i \in 1..n |-> StampedId(start_idx, i)]
            /\ UNCHANGED <<model_name, disk, caller, saving, adds>>

(***************************************************************************)
(* search(query, k)                                                        *)
(***************************************************************************)
\* A variant of the next definition: the distance reported as a similarity
\* score (its negation).
ResultAsSimilarity(i, hit) ==
    [rank |-> i + 1,
     document_idx |-> hit.idx,
     distance |-> 0 - hit.distance,
     text |-> GetItem(documents, hit.idx),
     metadata |-> MetaValue(heap, GetItem(metadata, hit.idx))]

\* The result dictionary built for the i-th (0-based) neighbour.
Result(i, hit) ==
    [rank |-> i + 1,
     document_idx |-> hit.idx,
     distance |-> hit.distance,
     text |-> GetItem(documents, hit.idx),
     metadata |-> MetaValue(heap, GetItem(metadata, hit.idx))]

\* The result loop reads self.documents[idx] and self.metadata[idx].
ResultsReadable(hits) ==
    \A i \in 1..Len(hits) :
        InRange(documents, hits[i].idx) /\ InRange(metadata, hits[i].idx)

\* k = min(k, len(self.documents)); index.search(query_embedding, k)
Hits(query, k) ==
    IndexSearch(index, GenerateEmbeddings(model_name, <<query>>, FALSE)[1],
                Min(k, Len(documents)))

\* How search(query, k) ends in the present state.
SearchOutcome(query, k, embedFails) ==
    IF ~index.present \/ Len(documents) = 0 THEN "ok"
    ELSE IF embedFails THEN "EmbedError"
    ELSE IF ~DimensionOk(index, GenerateEmbeddings(model_name, <<query>>, FALSE))
    THEN "DimError"
    ELSE IF ~ResultsReadable(Hits(query, k)) THEN "IndexError"
    ELSE "ok"

\* The list search(query, k) returns when it ends "ok".
SearchResults(query, k) ==
    IF ~index.present \/ Len(documents) = 0 THEN <<>>
    ELSE [i \in 1..Len(Hits(query, k)) |-> Result(i - 1, Hits(query, k)[i])]

\* A variant of the next definition: the query embedding is passed to
\* index.add before index.search.
SearchAddingQuery(query, k, embedFails) ==
    /\ last' = Call("search", SearchOutcome(query, k, embedFails), SearchArgs(query, k))
    /\ index' = IF index.present /\ ~embedFails
                 THEN IndexAdd(index, GenerateEmbeddings(model_name, <<query>>, FALSE))
                 ELSE index
    /\ UNCHANGED <<model_name, documents, metadata, heap, disk, assigned, caller, saving, adds>>

Search(query, k, embedFails) ==
    /\ last' = Call("search", SearchOutcome(query, k, embedFails), SearchArgs(query, k))
    /\ UNCHANGED <<model_name, index, documents, metadata, heap, disk, assigned, caller, saving, adds>>

\* Two variants of SavedIndex: a save that never writes index.faiss, and a
\* save that writes it whether or not the catalog has an index.
SavedIndexNever(old, ix) == old

SavedIndexAlways(old, ix) == ix

(***************************************************************************)
(* save(directory)                                                         *)
(***************************************************************************)
\* faiss.write_index only when an index exists; otherwise index.faiss is
\* left as it was.
SavedIndex(old, ix) == IF ix.present THEN ix ELSE old

\* pickle.dump of a list: the file holds the values the list has now.
Pickled(list) == [exists |-> TRUE, data |-> list]

Save ==
    /\ disk' = [index |-> SavedIndex(disk.index, index),
                documents |-> Pickled(documents),
                metadata |-> Pickled(MetaValues(heap, metadata)),
                model_name |-> [exists |-> TRUE, data |-> model_name]]
    /\ last' = Call("save", "ok", NoArgs)
    /\ UNCHANGED <<model_name, index, documents, metadata, heap, assigned, caller, saving, adds>>

(***************************************************************************)
(* VectorDatabase.load(directory)                                          *)
(***************************************************************************)
\* f.read().strip() of model_name.txt: surrounding whitespace is dropped.
Strip(name) == IF name = LocalModel THEN "./model" ELSE name

\* cls(model_name): from_pretrained resolves the name or raises.
Loadable(name) == name \in KnownModels

\* A variant of Openable: metadata.pkl is not asked for.
OpenableWithoutMetadata(dir) == dir.model_name.exists /\ dir.documents.exists

\* The three files load opens unconditionally.
Openable(dir) ==
    dir.model_name.exists /\ dir.documents.exists /\ dir.metadata.exists

\* pickle.load of the metadata list: fresh dictionaries with the saved items.
Unpickled(values) == [i \in 1..Len(values) |-> [ref |-> 0, val |-> values[i]]]

\* The document_idx item of a stored dictionary.
DocumentIdx(d) == (CHOOSE p \in d : p[1] = "document_idx")[2]

\* A variant of Load: documents.pkl is opened for writing, which empties it,
\* and reading from it raises.
LoadOpeningForWrite ==
    /\ last' = Call("load", IF Openable(disk) THEN "UnsupportedOperation"
                                               ELSE "FileNotFoundError", NoArgs)
    /\ disk' = IF Openable(disk) THEN [disk EXCEPT !.documents = Pickled(<<>>)]
                                  ELSE disk
    /\ UNCHANGED <<model_name, index, documents, metadata, heap, assigned, caller, saving, adds>>

Load ==
    IF ~Openable(disk)
    THEN \* open() raises FileNotFoundError; no catalog is returned
         /\ last' = Call("load", "FileNotFoundError", NoArgs)
         /\ UNCHANGED <<model_name, index, documents, metadata, heap, disk, assigned, caller, saving, adds>>
    ELSE IF ~Loadable(Strip(disk.model_name.data))
    THEN \* from_pretrained raises OSError; no catalog is returned
         /\ last' = Call("load", "OSError", NoArgs)
         /\ UNCHANGED <<model_name, index, documents, metadata, heap, disk, assigned, caller, saving, adds>>
    ELSE /\ model_name' = Strip(disk.model_name.data)
         /\ documents' = disk.documents.data
         /\ metadata' = Unpickled(disk.metadata.data)
         /\ index' = disk.index
         /\ assigned' = [i \in 1..Len(disk.metadata.data) |->
                            DocumentIdx(disk.metadata.data[i])]
         /\ last' = Call("load", "ok", NoArgs)
         /\ UNCHANGED <<heap, disk, caller, saving, adds>>

(***************************************************************************)
(* The caller.                                                             *)
(***************************************************************************)
\* Sequences over S of length 0..n.
SeqUpTo(S, n) == UNION {[1..m -> S] : m \in 0..n}

DoNew == \E name \in ModelNames : New(name)

DoAddDocuments ==
    \E docs \in SeqUpTo(Texts, MaxBatch), asStr \in BOOLEAN, given \in BOOLEAN,
       refs \in SeqUpTo(CallerDicts, MaxBatch), embedFails \in BOOLEAN :
        /\ given \/ refs = <<>>
        /\ given => caller = "dicts"
        /\ AddDocuments(docs, asStr, given, refs, embedFails)

DoSearch ==
    \E query \in Texts, k \in 1..MaxK, embedFails \in BOOLEAN :
        Search(query, k, embedFails)

DoSave == caller = "disk" /\ Save

DoLoad == caller = "disk" /\ Load

Next == DoNew \/ DoAddDocuments \/ DoSearch \/ DoSave \/ DoLoad

Spec == Init /\ [][Next]_vars

(***************************************************************************)
(* The caller that works on the directory: it also constructs a catalog    *)
(* from a local model directory, and files of the directory may be removed *)
(* between its calls.                                                      *)
(***************************************************************************)
Files == {"index", "documents", "metadata", "model_name"}

\* The file f of directory dir exists.
Exists(dir, f) == IF f = "index" THEN dir.index.present ELSE dir[f].exists

\* A file of the directory is removed from outside the program.
Remove(f) ==
    /\ Exists(disk, f)
    /\ disk' = [disk EXCEPT ![f] = EmptyDir[f]]
    /\ last' = Call("remove", "ok", NoArgs)
    /\ UNCHANGED <<model_name, index, documents, metadata, heap, assigned, caller, saving, adds>>

DoNewKnown == \E name \in KnownModels : New(name)

DoRemove == \E f \in Files : Remove(f)

InitStore == Init /\ caller = "disk"

NextStore == DoNewKnown \/ DoAddDocuments \/ DoSave \/ DoLoad \/ DoRemove

SpecStore == InitStore /\ [][NextStore]_vars

(***************************************************************************)
(* save followed file by file, in a process that may die at any point of   *)
(* it.  Each file is opened for writing, which creates or empties it, and  *)
(* is complete once its content is written and the file closed.            *)
(***************************************************************************)
\* The files in the order save writes them.
SaveFiles == <<"index", "documents", "metadata", "model_name">>

\* What save writes to file f.
FileContent(f) ==
    CASE f = "index" -> index
      [] f = "documents" -> Pickled(documents)
      [] f = "metadata" -> Pickled(MetaValues(heap, metadata))
      [] f = "model_name" -> [exists |-> TRUE, data |-> model_name]

Idle == saving.at = 0 /\ ~saving.crashed

\* The file save is at.
SaveAt == SaveFiles[saving.at]

\* save is called: the directory is made.
SaveBegin ==
    /\ Idle
    /\ saving' = [saving EXCEPT !.at = 1]
    /\ last' = Call("save", "running", NoArgs)
    /\ UNCHANGED <<model_name, index, documents, metadata, heap, disk, assigned, caller, adds>>

\* if self.index is not None: is false, index.faiss is passed over.
SaveSkipIndex ==
    /\ ~saving.crashed /\ saving.at = 1 /\ ~index.present
    /\ saving' = [saving EXCEPT !.at = 2]
    /\ UNCHANGED <<model_name, index, documents, metadata, heap, disk, last, assigned, caller, adds>>

\* The file save is at is opened for writing: it exists and is empty.
SaveOpen ==
    /\ ~saving.crashed /\ saving.at \in 1..Len(SaveFiles)
    /\ SaveAt \notin saving.partial
    /\ SaveAt = "index" => index.present
    /\ disk' = [disk EXCEPT ![SaveAt] = EmptyDir[SaveAt]]
    /\ saving' = [saving EXCEPT !.partial = @ \cup {SaveAt}]
    /\ UNCHANGED <<model_name, index, documents, metadata, heap, last, assigned, caller, adds>>

\* The content is written and the file closed.
SaveWrite ==
    /\ ~saving.crashed /\ saving.at \in 1..Len(SaveFiles)
    /\ SaveAt \in saving.partial
    /\ disk' = [disk EXCEPT ![SaveAt] = FileContent(SaveAt)]
    /\ saving' = [saving EXCEPT !.partial = @ \ {SaveAt}, !.at = @ + 1]
    /\ UNCHANGED <<model_name, index, documents, metadata, heap, last, assigned, caller, adds>>

\* save returns.
SaveReturn ==
    /\ ~saving.crashed /\ saving.at = Len(SaveFiles) + 1
    /\ saving' = [saving EXCEPT !.at = 0]
    /\ last' = Call("save", "ok", NoArgs)
    /\ UNCHANGED <<model_name, index, documents, metadata, heap, disk, assigned, caller, adds>>

\* The process dies during save; the directory stays as it is.
Crash ==
    /\ ~saving.crashed /\ saving.at > 0
    /\ saving' = [saving EXCEPT !.crashed = TRUE]
    /\ last' = Call("save", "crashed", NoArgs)
    /\ UNCHANGED <<model_name, index, documents, metadata, heap, disk, assigned, caller, adds>>

NewWhenIdle == Idle /\ DoNew

AddWhenIdle == Idle /\ DoAddDocuments

LoadWhenIdle == Idle /\ DoLoad

InitCrash == Init /\ caller = "disk"

NextCrash ==
    \/ NewWhenIdle \/ AddWhenIdle \/ LoadWhenIdle
    \/ SaveBegin \/ SaveSkipIndex \/ SaveOpen \/ SaveWrite \/ SaveReturn
    \/ Crash

SpecCrash == InitCrash /\ [][NextCrash]_vars

(***************************************************************************)
(* add_documents followed statement by statement: each thread of the       *)
(* caller makes one call with a non-empty list and no metadata on a fresh  *)
(* catalog; the calls interleave with each other and with searches, and a  *)
(* call may be cancelled (an exception raised into it) at any statement.   *)
(* A search is one step here.                                              *)
(***************************************************************************)
\* A variant of the next definition: the order stamp, store, index.
NextStepStoreFirst(pc) ==
    CASE pc = "embed" -> "start_idx"
      [] pc = "start_idx" -> "stamp"
      [] pc = "stamp" -> "extend_documents"
      [] pc = "extend_documents" -> "extend_metadata"
      [] pc = "extend_metadata" -> "test_index"
      [] pc = "test_index" -> "index_add"
      [] pc = "index_add" -> "return"

\* The statement that follows statement pc in add_documents (create_index
\* is entered from test_index when there is no index).
NextStep(pc) ==
    CASE pc = "embed" -> "test_index"
      [] pc = "test_index" -> "index_add"
      [] pc = "index_add" -> "start_idx"
      [] pc = "start_idx" -> "extend_documents"
      [] pc = "extend_documents" -> "stamp"
      [] pc = "stamp" -> "extend_metadata"
      [] pc = "extend_metadata" -> "return"

\* The embeddings of the batch of thread t.
Embeddings(t) == GenerateEmbeddings(model_name, adds[t].docs, FALSE)

\* The step of thread t is recorded as the latest call.
Running(t, outcome, rows) ==
    last' = Call("add", outcome, AddArgs(Len(adds[t].docs), FALSE, 0, rows))

\* Thread t moves on to statement pc.
Goto(t, pc) == adds' = [adds EXCEPT ![t].pc = pc]

\* A variant of the next definition: the index is created on entry, before
\* the embedder is called.
AddCallCreatingIndex(t, docs) ==
    /\ adds[t].pc = "idle" /\ adds[t].result = "none"
    /\ Len(docs) + SumSeq([u \in 1..Cardinality(Threads) |-> Len(adds[u].docs)]) <= MaxDocs
    /\ adds' = [adds EXCEPT ![t].pc = "embed", ![t].docs = docs]
    /\ index' = IF index.present THEN index ELSE IndexFlatL2(Width(model_name))
    /\ last' = Call("add", "running", AddArgs(Len(docs), FALSE, 0, 0))
    /\ UNCHANGED <<model_name, documents, metadata, heap, disk, assigned, caller, saving>>

\* add_documents(docs) is called by thread t; docs is not empty.
AddCall(t, docs) ==
    /\ adds[t].pc = "idle" /\ adds[t].result = "none"
    /\ Len(docs) + SumSeq([u \in 1..Cardinality(Threads) |-> Len(adds[u].docs)]) <= MaxDocs
    /\ adds' = [adds EXCEPT ![t].pc = "embed", ![t].docs = docs]
    /\ last' = Call("add", "running", AddArgs(Len(docs), FALSE, 0, 0))
    /\ UNCHANGED <<model_name, index, documents, metadata, heap, disk, assigned, caller, saving>>

\* embeddings = self.generate_embeddings(documents) returns.
AddEmbed(t) ==
    /\ adds[t].pc = "embed"
    /\ Goto(t, NextStep("embed"))
    /\ Running(t, "running", Len(Embeddings(t)))
    /\ UNCHANGED <<model_name, index, documents, metadata, heap, disk, assigned, caller, saving>>

\* generate_embeddings raises.
AddEmbedFails(t) ==
    /\ adds[t].pc = "embed"
    /\ adds' = [adds EXCEPT ![t].pc = "idle", ![t].result = "raised"]
    /\ Running(t, "EmbedError", 0)
    /\ UNCHANGED <<model_name, index, documents, metadata, heap, disk, assigned, caller, saving>>

\* if self.index is None:
AddTestIndex(t) ==
    /\ adds[t].pc = "test_index"
    /\ Goto(t, IF index.present THEN NextStep("test_index") ELSE "create_index")
    /\ Running(t, "running", Len(Embeddings(t)))
    /\ UNCHANGED <<model_name, index, documents, metadata, heap, disk, assigned, caller, saving>>

\* self.index = faiss.IndexFlatL2(dimension)
AddCreateIndex(t) ==
    /\ adds[t].pc = "create_index"
    /\ index' = IndexFlatL2(Shape1(Embeddings(t)))
    /\ Goto(t, NextStep("test_index"))
    /\ Running(t, "running", Len(Embeddings(t)))
    /\ UNCHANGED <<model_name, documents, metadata, heap, disk, assigned, caller, saving>>

\* self.index.add(embeddings)
AddIndexAdd(t) ==
    /\ adds[t].pc = "index_add"
    /\ IF DimensionOk(index, Embeddings(t))
       THEN /\ index' = IndexAdd(index, Embeddings(t))
            /\ adds' = [adds EXCEPT ![t].pc = NextStep("index_add"), ![t].indexed = TRUE]
            /\ Running(t, "running", Len(Embeddings(t)))
       ELSE /\ index' = index
            /\ adds' = [adds EXCEPT ![t].pc = "idle", ![t].result = "raised"]
            /\ Running(t, "DimError", Len(Embeddings(t)))
    /\ UNCHANGED <<model_name, documents, metadata, heap, disk, assigned, caller, saving>>

\* start_idx = len(self.documents)
AddStartIdx(t) ==
    /\ adds[t].pc = "start_idx"
    /\ adds' = [adds EXCEPT ![t].pc = NextStep("start_idx"), ![t].start_idx = Len(documents)]
    /\ Running(t, "running", Len(Embeddings(t)))
    /\ UNCHANGED <<model_name, index, documents, metadata, heap, disk, assigned, caller, saving>>

\* self.documents.extend(documents)
AddExtendDocuments(t) ==
    /\ adds[t].pc = "extend_documents"
    /\ documents' = ExtendDocuments(documents, adds[t].docs)
    /\ adds' = [adds EXCEPT ![t].pc = NextStep("extend_documents"), ![t].stored = TRUE]
    /\ Running(t, "running", Len(Embeddings(t)))
    /\ UNCHANGED <<model_name, index, metadata, heap, disk, assigned, caller, saving>>

\* metadata = [{} for _ in documents]; the assert; the loop that sets
\* meta['document_idx'] = start_idx + i in these dictionaries, which only
\* this call refers to.
AddStamp(t) ==
    /\ adds[t].pc = "stamp"
    /\ adds' = [adds EXCEPT ![t].pc = NextStep("stamp"), ![t].stamped = TRUE]
    /\ Running(t, "running", Len(Embeddings(t)))
    /\ UNCHANGED <<model_name, index, documents, metadata, heap, disk, assigned, caller, saving>>

\* self.metadata.extend(metadata)
AddExtendMetadata(t) ==
    /\ adds[t].pc = "extend_metadata"
    /\ metadata' = ExtendMetadata(metadata,
                        StampOwn(MetadataArg(FALSE, <<>>, adds[t].docs), adds[t].start_idx))
    /\ assigned' = assigned \o [i \in 1..Len(adds[t].docs) |->
                                     StampedId(adds[t].start_idx, i)]
    /\ Goto(t, NextStep("extend_metadata"))
    /\ Running(t, "running", Len(Embeddings(t)))
    /\ UNCHANGED <<model_name, index, documents, heap, disk, caller, saving>>

\* The call returns.
AddReturn(t) ==
    /\ adds[t].pc = "return"
    /\ adds' = [adds EXCEPT ![t].pc = "idle", ![t].result = "ok"]
    /\ Running(t, "ok", Len(Embeddings(t)))
    /\ UNCHANGED <<model_name, index, documents, metadata, heap, disk, assigned, caller, saving>>

\* The call of thread t is cancelled where it stands.
AddCancel(t) ==
    /\ adds[t].pc # "idle"
    /\ adds' = [adds EXCEPT ![t].pc = "idle", ![t].result = "cancelled"]
    /\ Running(t, "Cancelled", IF adds[t].pc = "embed" THEN 0 ELSE Len(Embeddings(t)))
    /\ UNCHANGED <<model_name, index, documents, metadata, heap, disk, assigned, caller, saving>>

\* Non-empty lists of texts.
Batches == SeqUpTo(Texts, MaxBatch) \ {<<>>}

StepCall == \E t \in Threads, docs \in Batches : AddCall(t, docs)
StepEmbed == \E t \in Threads : AddEmbed(t)
StepEmbedFails == \E t \in Threads : AddEmbedFails(t)
StepTestIndex == \E t \in Threads : AddTestIndex(t)
StepCreateIndex == \E t \in Threads : AddCreateIndex(t)
StepIndexAdd == \E t \in Threads : AddIndexAdd(t)
StepStartIdx == \E t \in Threads : AddStartIdx(t)
StepExtendDocuments == \E t \in Threads : AddExtendDocuments(t)
StepStamp == \E t \in Threads : AddStamp(t)
StepExtendMetadata == \E t \in Threads : AddExtendMetadata(t)
StepReturn == \E t \in Threads : AddReturn(t)
StepCancel == \E t \in Threads : AddCancel(t)

InitSteps == Init /\ caller = "disk"

NextSteps ==
    \/ StepCall \/ StepEmbed \/ StepEmbedFails \/ StepTestIndex \/ StepCreateIndex
    \/ StepIndexAdd \/ StepStartIdx \/ StepExtendDocuments \/ StepStamp
    \/ StepExtendMetadata \/ StepReturn \/ StepCancel \/ DoSearch

SpecSteps == InitSteps /\ [][NextSteps]_vars

(***************************************************************************)
(* Properties.                                                             *)
(***************************************************************************)
\* The outcomes with which add_documents raises.
AddErrors == {"EmbedError", "DimError", "MetaLenError"}

\* The step leaves the index, the document list, the metadata list and the
\* dictionaries it refers to as they were.
CatalogUnchanged ==
    /\ index' = index
    /\ documents' = documents
    /\ metadata' = metadata
    /\ heap' = heap

\* The step is an add_documents call in which the embedder returned.
Embedded == last'.op = "add" /\ last'.args.rows > 0

\* C1: whenever an add_documents call has returned or raised, the index holds
\* as many vectors as there are stored documents and stored metadata entries.
C1_LengthsAgree ==
    last.op = "add" =>
        /\ NTotal(index) = Len(documents)
        /\ Len(metadata) = Len(documents)

\* C2: an add_documents call that fails leaves the index, the document list
\* and the metadata list exactly as they were before the call.
C2_AllOrNothing ==
    [][(last'.op = "add" /\ last'.outcome \in AddErrors) => CatalogUnchanged]_vars

\* C3: a successful add_documents of a non-empty batch raises total_count by
\* the batch size.
C3_CountGrowsByBatch ==
    [][(last'.op = "add" /\ last'.outcome = "ok" /\ last'.args.n > 0)
        => Len(documents') = Len(documents) + last'.args.n]_vars

\* A second or later batch has been added successfully.
C3_Witness ==
    /\ last.op = "add" /\ last.outcome = "ok"
    /\ last.args.n > 0 /\ total_count > last.args.n

\* C4: after any add_documents call the ids assigned so far are exactly
\* 0..total_count-1, in insertion order, none assigned twice.
C4_DenseIds ==
    last.op = "add" => assigned = [i \in 1..total_count |-> i - 1]

\* C5: in every state the metadata entry at position i holds document_idx = i.
C5_StampedIdIsPosition ==
    \A i \in 1..Len(metadata) :
        <<"document_idx", i - 1>> \in MetaValue(heap, metadata[i])

\* C6: in every state the vector at index position i is the embedding of the
\* document stored at position i, for every i below total_count.
C6_VectorOfDocument ==
    \A i \in 1..total_count :
        /\ i <= NTotal(index)
        /\ index.xb[i] = Embed(model_name, documents[i])

\* C7: add_documents called with a metadata list whose length differs from
\* the number of texts fails with the length-mismatch error and stores nothing.
C7_MismatchRejected ==
    [][(last'.op = "add" /\ last'.args.given /\ last'.args.metaLen # last'.args.n)
        => (last'.outcome = "MetaLenError" /\ CatalogUnchanged)]_vars

\* C8: the dimension of a catalog's index is the embedding width of the first
\* batch and never changes; an add_documents whose embeddings have another
\* width fails and leaves the catalog unchanged.
C8_DimensionFixed ==
    [][/\ (~index.present /\ index'.present /\ last'.op = "add")
            => index'.d = Width(model_name)
       /\ (index.present /\ last'.op \in {"add", "search", "save"})
            => (index'.present /\ index'.d = index.d)
       /\ (Embedded /\ index.present /\ Width(model_name) # index.d)
            => (last'.outcome = "DimError" /\ CatalogUnchanged)]_vars

\* An add_documents has failed on the width of its embeddings, on a catalog
\* whose index holds vectors.
C8_Witness ==
    last.op = "add" /\ last.outcome = "DimError" /\ NTotal(index) > 0

\* C9: when the embedder returns a number of vectors different from the
\* number of texts, add_documents fails with the embedding error and leaves
\* the catalog unchanged.
C9_RowCountChecked ==
    [][(Embedded /\ last'.args.rows # last'.args.n)
        => (last'.outcome = "EmbedError" /\ CatalogUnchanged)]_vars

\* C10: a search with k above total_count returns exactly total_count
\* results without raising, and a search on a catalog without documents
\* returns the empty list without raising (a failure of the embedder itself
\* set aside).
C10_ClampedSearch ==
    (last.op = "search" /\ last.outcome # "EmbedError"
        /\ (last.args.k > total_count \/ total_count = 0))
    => /\ last.outcome = "ok"
       /\ Len(SearchResults(last.args.query, last.args.k)) = total_count

\* The results of the latest search, and their ids in rank order.
LastResults == SearchResults(last.args.query, last.args.k)
LastIds == [i \in 1..Len(LastResults) |-> LastResults[i].document_idx]

\* The latest call is a search in which the embedder did not fail.
Searched == last.op = "search" /\ last.outcome # "EmbedError"

\* Stored position p is nearer to the latest query than stored position r, a
\* tie going to the lower position.
Nearer(p, r) ==
    LET q == Embed(model_name, last.args.query)
        dp == L2Sqr(index.xb[p + 1], q)
        dr == L2Sqr(index.xb[r + 1], q)
    IN dp < dr \/ (dp = dr /\ p < r)

\* C11: on a non-empty catalog search returns the ids of exactly the
\* min(k, total_count) stored positions nearest to the query in squared
\* Euclidean distance, nearest first, a tie going to the lower position.
C11_NearestIds ==
    (Searched /\ total_count > 0) =>
        /\ last.outcome = "ok"
        /\ Len(LastIds) = Min(last.args.k, total_count)
        /\ \A i \in 1..Len(LastIds) :
              LastIds[i] >= 0 /\ LastIds[i] < total_count /\ LastIds[i] < NTotal(index)
        /\ \A i, j \in 1..Len(LastIds) : i < j => Nearer(LastIds[i], LastIds[j])
        /\ \A p \in 0..(total_count - 1) :
              (\A i \in 1..Len(LastIds) : LastIds[i] # p)
              => /\ p < NTotal(index)
                 /\ \A i \in 1..Len(LastIds) : Nearer(LastIds[i], p)

\* C12: in every list search returns, the distances do not decrease with
\* the rank.
C12_DistancesSorted ==
    (last.op = "search" /\ last.outcome = "ok") =>
        \A i \in 1..(Len(LastResults) - 1) :
            LastResults[i].distance <= LastResults[i + 1].distance

\* A search has returned two results at different distances.
C12_Witness ==
    /\ last.op = "search" /\ last.outcome = "ok"
    /\ Len(LastResults) >= 2
    /\ LastResults[1].distance < LastResults[2].distance

\* C13: on a non-empty catalog the result at list position j has rank j + 1
\* and carries the stored text and metadata of the document whose id it
\* reports, so that its metadata's document_idx is that id.
C13_ResultJoinsStore ==
    (Searched /\ total_count > 0) =>
        /\ last.outcome = "ok"
        /\ \A j \in 1..Len(LastResults) :
              LET r == LastResults[j]
              IN /\ r.rank = j
                 /\ r.document_idx >= 0 /\ r.document_idx < total_count
                 /\ r.text = documents[r.document_idx + 1]
                 /\ r.metadata = MetaValue(heap, metadata[r.document_idx + 1])
                 /\ <<"document_idx", r.document_idx>> \in r.metadata

\* The texts and values k searches are compared on.
Queries == Texts
Ks == 1..MaxK

\* The step's catalog answers every search as the catalog before the step.
SameSearches ==
    \A q \in Queries, k \in Ks :
        /\ SearchOutcome(q, k, FALSE)' = SearchOutcome(q, k, FALSE)
        /\ SearchOutcome(q, k, FALSE) = "ok"
           => SearchResults(q, k)' = SearchResults(q, k)

Required == {"documents", "metadata", "model_name"}

C17_LoadChecksLengths ==
    (last.op = "load" /\ last.outcome = "ok")
        => NTotal(disk.index) = Len(disk.documents.data)

\* C18: when the process has died during save, no file of the directory is
\* partially written: each holds its complete old content or its complete
\* new content, or does not exist.
C18_AtomicWrites == saving.crashed => saving.partial = {}

\* The files of directory dir that save writes hold the catalog's content.
HoldsLists(dir) ==
    /\ dir.documents.exists /\ dir.documents.data = documents
    /\ dir.metadata.exists /\ dir.metadata.data = MetaValues(heap, metadata)
    /\ dir.model_name.exists /\ dir.model_name.data = model_name

C20_LoadReadsOnly == [][last'.op = "load" => disk' = disk]_vars

\* load has raised on a directory that holds some of the files.
C20_Witness ==
    /\ last.op = "load" /\ last.outcome # "ok"
    /\ \E f \in Files : Exists(disk, f)

\* C21: a stored document keeps its text and its metadata, document_idx
\* included, through every later add_documents and search call, also when
\* the caller passes a metadata dictionary again.
C21_AppendOnly ==
    [][(last'.op \in {"add", "search"})
       => /\ \A i \in 1..Len(documents) :
                i <= Len(documents') /\ documents'[i] = documents[i]
          /\ \A i \in 1..Len(metadata) :
                /\ i <= Len(metadata')
                /\ MetaValue(heap', metadata'[i]) = MetaValue(heap, metadata[i])]_vars

\* C22: the documents of a loaded catalog have the ids 0..n-1, and the
\* add_documents that follows the load gives its documents the ids from n
\* on and puts the vector of each at the index position equal to its id.
C22_IdsAcrossReload ==
    [][(last.op = "load" /\ last.outcome = "ok")
       => /\ assigned = [i \in 1..total_count |-> i - 1]
          /\ (last'.op = "add" /\ last'.outcome = "ok" /\ last'.args.n > 0)
             => /\ assigned' = [i \in 1..Len(documents') |-> i - 1]
                /\ \A i \in (Len(documents) + 1)..Len(documents') :
                      /\ i <= NTotal(index')
                      /\ index'.xb[i] = Embed(model_name, documents'[i])]_vars

\* C27: add_documents with no texts returns without error and without
\* calling the embedder, creates no index and leaves the index, the
\* documents and the metadata as they were, whatever metadata is passed.
C27_EmptyBatchNoOp ==
    [][(last'.op = "add" /\ last'.args.n = 0)
       => /\ last'.outcome = "empty"
          /\ last'.args.rows = 0
          /\ CatalogUnchanged
          /\ assigned' = assigned]_vars

\* add_documents has returned for no texts and a non-empty metadata list, on
\* a catalog without index.
C27_Witness ==
    /\ last.op = "add" /\ last.outcome = "empty"
    /\ last.args.n = 0 /\ last.args.given /\ last.args.metaLen > 0
    /\ ~index.present

\* C28: the catalog loaded from a directory just saved to holds as many
\* index vectors as the saved catalog has documents, whatever the directory
\* held before.
C28_NoStaleIndex ==
    [][(last.op = "save" /\ last.outcome = "ok"
        /\ last'.op = "load" /\ last'.outcome = "ok")
       => NTotal(index') = Len(documents)]_vars

\* C29: every id of a search result is a stored position 0..total_count-1,
\* and no id occurs twice in one result list.
C29_ValidIds ==
    (last.op = "search" /\ last.outcome = "ok") =>
        /\ \A i \in 1..Len(LastIds) : LastIds[i] >= 0 /\ LastIds[i] < total_count
        /\ \A i, j \in 1..Len(LastIds) : i # j => LastIds[i] # LastIds[j]

\* C30: a search call, whatever the query and k, leaves the index, the
\* document list, the metadata list and total_count as they were.
C30_SearchReadsOnly ==
    [][last'.op = "search"
       => (CatalogUnchanged /\ Len(documents') = Len(documents))]_vars

\* A search has returned results on a non-empty catalog.
C30_Witness ==
    /\ last.op = "search" /\ last.outcome = "ok"
    /\ total_count > 0 /\ Len(LastResults) > 0

\* Thread t takes the step.
Acts(t) == adds'[t] # adds[t]

\* C23: add_documents changes nothing of the index, the documents and the
\* metadata and assigns no id before the embedder has returned, so a call
\* that is cancelled or whose embedder fails while the embed call is
\* outstanding leaves the catalog as it was before the call.
C23_NothingBeforeEmbedReturns ==
    [][\A t \in Threads :
          (Acts(t) /\ (adds[t].pc = "embed" \/ adds'[t].pc = "embed"))
          => (CatalogUnchanged /\ assigned' = assigned)]_vars

\* A call has been cancelled during its embed call on a catalog that holds
\* documents.
C23_Witness ==
    /\ last.op = "add" /\ last.outcome = "Cancelled" /\ last.args.rows = 0
    /\ total_count > 0

\* C24: a search that runs while add_documents calls are under way sees the
\* index, the documents and the metadata with whole batches only: it
\* returns, the three agree in length, and every id it returns is that of a
\* stored document with a metadata entry.
C24_SearchSeesWholeBatches ==
    (last.op = "search" /\ last.outcome # "EmbedError") =>
        /\ last.outcome = "ok"
        /\ NTotal(index) = Len(documents)
        /\ Len(metadata) = Len(documents)
        /\ \A i \in 1..Len(LastIds) :
              LastIds[i] >= 0 /\ LastIds[i] < Len(documents) /\ LastIds[i] < Len(metadata)

\* The calls of all threads have returned.
AllReturned == \A t \in Threads : adds[t].pc = "idle" /\ adds[t].result = "ok"

\* The catalog that the calls of the threads leave when they run one after
\* the other in the order given by the sequence of threads.
DocumentsInOrder(order) == Flatten([i \in 1..Len(order) |-> adds[order[i]].docs])

\* C25: when two interleaved add_documents calls have returned, the catalog
\* is the one that the two calls leave when run one after the other in some
\* order: the ids are 0..total_count-1, each once, and the vector of each
\* document is at the index position equal to its id.
C25_Serialized ==
    AllReturned =>
        /\ \E order \in {<<1, 2>>, <<2, 1>>} : documents = DocumentsInOrder(order)
        /\ NTotal(index) = Len(documents)
        /\ \A i \in 1..NTotal(index) : index.xb[i] = Embed(model_name, documents[i])
        /\ Len(metadata) = Len(documents)
        /\ \A i \in 1..Len(metadata) :
              <<"document_idx", i - 1>> \in MetaValue(heap, metadata[i])

====
